---- MODULE Spec2Model ----
(***************************************************************************)
(* Model of the Customer Intelligence Dashboard (src/app.py).              *)
(*                                                                         *)
(* The script is re-executed top to bottom on every widget change.  One    *)
(* action models one whole execution of the script: load_data (cached),    *)
(* the three sidebar multiselects, the query filter, the KPI metrics, the  *)
(* four group-by aggregations, the data table and the insight summary.     *)
(* Amounts are integers (whole currency units); labels are never missing.  *)
(***************************************************************************)
EXTENDS Integers, Sequences, FiniteSets, TLC

VARIABLES
    pc,                 \* "start" before the first run; then "done" or "IndexError"
    cache,              \* the st.cache_data store of load_data
    df,                 \* module-level df as it stands at the end of the run
    selected_year,      \* value of the year multiselect
    selected_segment,   \* value of the segment multiselect
    selected_industry,  \* value of the industry multiselect
    filtered_df,
    total_sales,
    total_customers,
    avg_transaction,
    metrics,            \* the three strings handed to col*.metric
    sales_by_segment,
    sales_by_day,
    industry_sales,
    table,              \* the frame handed to st.dataframe
    monthly_trend,
    insight             \* the insight summary, or the exception that replaced it

vars == <<pc, cache, df, selected_year, selected_segment, selected_industry,
          filtered_df, total_sales, total_customers, avg_transaction, metrics,
          sales_by_segment, sales_by_day, industry_sales, table, monthly_trend,
          insight>>

----------------------------------------------------------------------------
(* Bounds of the model *)

\* most rows a spreadsheet holds
MaxRows == 4

----------------------------------------------------------------------------
(* The spreadsheet: rows of Date, Amount, customer_segment,                *)
(* businessindustrytype.                                                   *)

Row(y, m, d, amount, seg, ind) ==
    [Date |-> [y |-> y, m |-> m, d |-> d], Amount |-> amount,
     customer_segment |-> seg, businessindustrytype |-> ind]

RowPool ==
    { Row(2023, 1, 2, 100, "SegA", "Tech"),
      Row(2023, 1, 3, 50, "SegB", "Tech"),
      Row(2023, 6, 5, 200, "SegA", "Retail"),
      Row(2024, 2, 1, 75, "SegB", "Retail"),
      Row(2024, 8, 5, -50, "SegA", "Retail") }

\* what pd.read_excel can return: any arrangement of distinct pool rows
Files ==
    UNION { { f \in [1..n -> RowPool] : \A i, j \in 1..n : f[i] = f[j] => i = j }
            : n \in 0..MaxRows }

----------------------------------------------------------------------------
(* Sequence helpers *)

Reverse(s) == [i \in 1..Len(s) |-> s[Len(s) + 1 - i]]

Range(s) == { s[i] : i \in DOMAIN s }

RECURSIVE SumSeq(_)
SumSeq(s) == IF s = <<>> THEN 0 ELSE Head(s) + SumSeq(Tail(s))

IndexOf(s, x) == IF \E i \in DOMAIN s : s[i] = x
                 THEN CHOOSE i \in DOMAIN s : s[i] = x /\ \A j \in 1..(i-1) : s[j] # x
                 ELSE 0

----------------------------------------------------------------------------
(* Calendar: Date.dt.year, Date.dt.month_name(), Date.dt.day_name() *)

MONTHS == <<"January", "February", "March", "April", "May", "June",
            "July", "August", "September", "October", "November", "December">>

DAYS == <<"Monday", "Tuesday", "Wednesday", "Thursday", "Friday", "Saturday", "Sunday">>

is_leap(y) == (y % 4 = 0) /\ ((y % 100 # 0) \/ (y % 400 = 0))

days_before_month(y, m) ==
    LET cum == <<0, 31, 59, 90, 120, 151, 181, 212, 243, 273, 304, 334>>
    IN  cum[m] + (IF m > 2 /\ is_leap(y) THEN 1 ELSE 0)

days_before_year(y) ==
    LET p == y - 1 IN p * 365 + (p \div 4) - (p \div 100) + (p \div 400)

\* proleptic Gregorian ordinal, 0001-01-01 is day 1
toordinal(date) == days_before_year(date.y) + days_before_month(date.y, date.m) + date.d

\* Monday = 0 .. Sunday = 6
dayofweek(date) == (toordinal(date) + 6) % 7

month_name(date) == MONTHS[date.m]

day_name(date) == DAYS[dayofweek(date) + 1]

----------------------------------------------------------------------------
(* load_data *)

NoCache == [populated |-> FALSE, value |-> <<>>]

derive(row) ==
    [Date |-> row.Date, Amount |-> row.Amount,
     customer_segment |-> row.customer_segment,
     businessindustrytype |-> row.businessindustrytype,
     Year |-> row.Date.y,
     Month |-> month_name(row.Date),
     Day_Name |-> day_name(row.Date)]

\* @st.cache_data: the body runs on a miss, a hit returns a copy of the stored value
load_data(store, file) ==
    IF store.populated THEN store.value
    ELSE [i \in DOMAIN file |-> derive(file[i])]

----------------------------------------------------------------------------
(* Sidebar filters *)

Column(frame, col) == [i \in DOMAIN frame |-> frame[i][col]]

\* positions of vals that hold a value for the first time
FirstSeen(vals) == { i \in DOMAIN vals : \A j \in 1..(i-1) : vals[j] # vals[i] }

\* the k-th smallest member of a set of positions
Nth(S, k) == CHOOSE i \in S : Cardinality({ j \in S : j < i }) = k - 1

\* pd.unique(vals): the distinct values in order of first appearance
distinct(vals) == [k \in 1..Cardinality(FirstSeen(vals)) |-> vals[Nth(FirstSeen(vals), k)]]

\* frame[col].unique()
unique(frame, col) == distinct(Column(frame, col))

\* s[:n]
Take(s, n) == SubSeq(s, 1, IF Len(s) < n THEN Len(s) ELSE n)

DefaultSegments == 3

DefaultIndustries == 5

year_options(frame) == Range(unique(frame, "Year"))

segment_options(frame) == Range(unique(frame, "customer_segment"))

industry_options(frame) == Range(unique(frame, "businessindustrytype"))

year_default(frame) == Range(unique(frame, "Year"))

segment_default(frame) == Range(Take(unique(frame, "customer_segment"), DefaultSegments))

industry_default(frame) == Range(Take(unique(frame, "businessindustrytype"), DefaultIndustries))

----------------------------------------------------------------------------
(* Filter: df.query("Year == @selected_year and customer_segment ==        *)
(* @selected_segment and businessindustrytype == @selected_industry").     *)
(* `==` against a list is membership in the list.                          *)

\* variant of matches: the three conditions joined by `or`
matches_any(r, years, segments, industries) ==
    \/ r.Year \in years
    \/ r.customer_segment \in segments
    \/ r.businessindustrytype \in industries

\* variant of matches: an empty selection stands for "all"
matches_all_when_empty(r, years, segments, industries) ==
    /\ (years = {} \/ r.Year \in years)
    /\ (segments = {} \/ r.customer_segment \in segments)
    /\ (industries = {} \/ r.businessindustrytype \in industries)

matches(r, years, segments, industries) ==
    /\ r.Year \in years
    /\ r.customer_segment \in segments
    /\ r.businessindustrytype \in industries

\* the rows of frame that satisfy the expression, in frame order
keep(frame, years, segments, industries) ==
    SelectSeq(frame, LAMBDA r : matches(r, years, segments, industries))

\* variant of query: the first matching row is lost
query_skip_first(frame, years, segments, industries, inplace) ==
    [frame |-> frame,
     result |-> IF keep(frame, years, segments, industries) = <<>> THEN <<>>
                ELSE Tail(keep(frame, years, segments, industries))]

\* variant of query: the filter is applied to the caller's frame itself
query_in_place(frame, years, segments, industries, inplace) ==
    [frame |-> keep(frame, years, segments, industries),
     result |-> keep(frame, years, segments, industries)]

\* DataFrame.query(expr, inplace): frame is the caller's frame afterwards,
\* result the rows that satisfy expr
query(frame, years, segments, industries, inplace) ==
    [frame |-> IF inplace THEN keep(frame, years, segments, industries) ELSE frame,
     result |-> keep(frame, years, segments, industries)]

----------------------------------------------------------------------------
(* KPI metrics *)

NaN == [kind |-> "nan", num |-> 0, den |-> 1]

Number(n, d) == [kind |-> "number", num |-> n, den |-> d]

Amounts(frame) == [i \in DOMAIN frame |-> frame[i].Amount]

\* Series.sum(): 0 on an empty series
sum(frame) == SumSeq(Amounts(frame))

\* Series.nunique()
nunique(frame, col) == Cardinality({ frame[i][col] : i \in DOMAIN frame })

\* Series.mean(): the quotient sum/count, NaN on an empty series
mean(frame) ==
    IF Len(frame) = 0 THEN NaN ELSE Number(sum(frame), Len(frame))

\* f"${x:,.0f}" and f"${x:,.2f}": a float NaN formats as "nan"
format_currency(x) ==
    [prefix |-> "$", text |-> IF x.kind = "nan" THEN "nan" ELSE "digits", value |-> x]

----------------------------------------------------------------------------
(* Sorting *)

\* Python's order on the strings that occur as group keys
AlphaOrder ==
    <<"April", "August", "December", "February", "Friday", "January", "July",
      "June", "March", "May", "Monday", "November", "October", "Retail",
      "Saturday", "SegA", "SegB", "September", "Sunday", "Tech", "Thursday",
      "Tuesday", "Wednesday">>

StrRank(s) == IndexOf(AlphaOrder, s)

\* the positions of idx that come before position k in a stable ascending
\* sort by items: those with a smaller item, and the earlier ones with an
\* equal item
before(items, idx, k) ==
    { j \in DOMAIN idx : \/ items[idx[j]] < items[idx[k]]
                         \/ (items[idx[j]] = items[idx[k]] /\ j < k) }

\* stable argsort of the positions idx by items[position], ascending
argsort(items, idx) ==
    [p \in DOMAIN idx |->
        idx[CHOOSE k \in DOMAIN idx : Cardinality(before(items, idx, k)) = p - 1]]

Positions(items) == [i \in DOMAIN items |-> i]

\* pandas nargsort: positions that sort items; masked (NaN) items go last;
\* a descending sort is the reverse of the ascending sort of the reverse
nargsort(items, mask, ascending) ==
    (IF ascending
     THEN argsort(items, SelectSeq(Positions(items), LAMBDA i : ~mask[i]))
     ELSE Reverse(argsort(items, Reverse(SelectSeq(Positions(items), LAMBDA i : ~mask[i])))))
    \o SelectSeq(Positions(items), LAMBDA i : mask[i])

take(frame, indexer) == [k \in DOMAIN indexer |-> frame[indexer[k]]]

NoMask(items) == [k \in DOMAIN items |-> FALSE]

\* the group keys in ascending order (groupby sorts its keys)
sorted_keys(keys) ==
    take(keys, nargsort([k \in DOMAIN keys |-> StrRank(keys[k])], NoMask(keys), TRUE))

----------------------------------------------------------------------------
(* Aggregations.  An aggregated frame is a sequence of rows               *)
(* [key, Amount], key being the grouping column.                           *)

\* variant of group_totals: each group reports its first Amount
group_totals_first(frame, col, keys) ==
    [k \in DOMAIN keys |->
        [key |-> keys[k],
         Amount |-> Head(SelectSeq(frame, LAMBDA r : r[col] = keys[k])).Amount]]

\* the Amount total of each group, one row per key
group_totals(frame, col, keys) ==
    [k \in DOMAIN keys |->
        [key |-> keys[k],
         Amount |-> sum(SelectSeq(frame, LAMBDA r : r[col] = keys[k]))]]

\* frame.groupby(col)["Amount"].sum().reset_index(): one row per key that
\* occurs, keys in ascending order
groupby_sum(frame, col) == group_totals(frame, col, sorted_keys(unique(frame, col)))

day_order == <<"Monday", "Tuesday", "Wednesday", "Thursday", "Friday", "Saturday", "Sunday">>

month_order == <<"January", "February", "March", "April", "May", "June",
                 "July", "August", "September", "October", "November", "December">>

\* pd.Categorical(values, categories, ordered=True).codes; -1 is NaN
codes(agg, categories) == [k \in DOMAIN agg |-> IndexOf(categories, agg[k].key) - 1]

\* variant of sort_by_codes: the frame is left in group-by order
sort_by_codes_unsorted(agg, c) == agg

\* sort_values on a categorical column: by code, NaN last
sort_by_codes(agg, c) == take(agg, nargsort(c, [k \in DOMAIN c |-> c[k] = -1], TRUE))

\* agg[col] = pd.Categorical(agg[col], categories, ordered=True);
\* agg.sort_values(col)
sort_by_category(agg, categories) == sort_by_codes(agg, codes(agg, categories))

\* variant of sort_by_amount: always ascending
sort_by_amount_ascending(agg, ascending) ==
    take(agg, nargsort(Amounts(agg), NoMask(agg), TRUE))

\* agg.sort_values("Amount", ascending=...)
sort_by_amount(agg, ascending) ==
    take(agg, nargsort(Amounts(agg), NoMask(agg), ascending))

\* variant of iloc00: the last row instead of the first
iloc_last(frame) ==
    IF Len(frame) = 0
    THEN [raised |-> "IndexError", key |-> ""]
    ELSE [raised |-> "", key |-> frame[Len(frame)].key]

\* frame.iloc[0, 0]
iloc00(frame) ==
    IF Len(frame) = 0
    THEN [raised |-> "IndexError", key |-> ""]
    ELSE [raised |-> "", key |-> frame[1].key]

\* agg.sort_values("Amount", ascending=False).iloc[0, 0]
top_key(agg) == iloc00(sort_by_amount(agg, FALSE))

----------------------------------------------------------------------------
(* One execution of the script *)

\* filtered_df[["Date", "customer_segment", "businessindustrytype", "Amount", "Year", "Month"]]
table_view(frame) ==
    [i \in DOMAIN frame |->
        [Date |-> frame[i].Date, customer_segment |-> frame[i].customer_segment,
         businessindustrytype |-> frame[i].businessindustrytype,
         Amount |-> frame[i].Amount, Year |-> frame[i].Year, Month |-> frame[i].Month]]

\* the st.write f-string, given its three top keys: they are evaluated in
\* order and the first that raises ends the run
insight_text(total, years, seg, day, ind) ==
    IF seg.raised # "" \/ day.raised # "" \/ ind.raised # ""
    THEN [raised |-> IF seg.raised # "" THEN seg.raised
                     ELSE IF day.raised # "" THEN day.raised ELSE ind.raised,
          total |-> 0, years |-> 0, segment |-> "", day |-> "", industry |-> ""]
    ELSE [raised |-> "", total |-> total, years |-> Cardinality(years),
          segment |-> seg.key, day |-> day.key, industry |-> ind.key]

insight_summary(total, years, by_segment, by_day, by_industry) ==
    insight_text(total, years, top_key(by_segment), top_key(by_day), top_key(by_industry))

\* the KPI metrics, the table and the insight summary, given the filter's
\* outcome q and the four aggregated frames
present(years, q, by_segment, by_day, by_industry, by_month) ==
    [df |-> q.frame,
     filtered_df |-> q.result,
     total_sales |-> sum(q.result),
     total_customers |-> nunique(q.result, "customer_segment"),
     avg_transaction |-> mean(q.result),
     metrics |-> [revenue |-> format_currency(Number(sum(q.result), 1)),
                  segments |-> nunique(q.result, "customer_segment"),
                  avg |-> format_currency(mean(q.result))],
     sales_by_segment |-> by_segment,
     sales_by_day |-> by_day,
     industry_sales |-> by_industry,
     table |-> table_view(q.result),
     monthly_trend |-> by_month,
     insight |-> insight_summary(sum(q.result), years, by_segment, by_day, by_industry)]

\* the four aggregations of the filtered frame
aggregate(years, q) ==
    present(years, q,
            groupby_sum(q.result, "customer_segment"),
            sort_by_category(groupby_sum(q.result, "Day_Name"), day_order),
            groupby_sum(q.result, "businessindustrytype"),
            sort_by_category(groupby_sum(q.result, "Month"), month_order))

\* everything the script computes from df and the three selections
Script(frame, years, segments, industries) ==
    aggregate(years, query(frame, years, segments, industries, FALSE))

\* the state a run leaves, given what load_data returned, what the widgets
\* hold and what the script computed
Render(frame, years, segments, industries, out) ==
    /\ cache' = [populated |-> TRUE, value |-> frame]
    /\ df' = out.df
    /\ selected_year' = years
    /\ selected_segment' = segments
    /\ selected_industry' = industries
    /\ filtered_df' = out.filtered_df
    /\ total_sales' = out.total_sales
    /\ total_customers' = out.total_customers
    /\ avg_transaction' = out.avg_transaction
    /\ metrics' = out.metrics
    /\ sales_by_segment' = out.sales_by_segment
    /\ sales_by_day' = out.sales_by_day
    /\ industry_sales' = out.industry_sales
    /\ table' = out.table
    /\ monthly_trend' = out.monthly_trend
    /\ insight' = out.insight
    /\ pc' = IF out.insight.raised # "" THEN out.insight.raised ELSE "done"

Run(frame, years, segments, industries) ==
    Render(frame, years, segments, industries, Script(frame, years, segments, industries))

----------------------------------------------------------------------------
(* Actions *)

Init ==
    /\ pc = "start"
    /\ cache = NoCache
    /\ df = <<>>
    /\ selected_year = {}
    /\ selected_segment = {}
    /\ selected_industry = {}
    /\ filtered_df = <<>>
    /\ total_sales = 0
    /\ total_customers = 0
    /\ avg_transaction = NaN
    /\ metrics = [revenue |-> format_currency(Number(0, 1)), segments |-> 0,
                  avg |-> format_currency(NaN)]
    /\ sales_by_segment = <<>>
    /\ sales_by_day = <<>>
    /\ industry_sales = <<>>
    /\ table = <<>>
    /\ monthly_trend = <<>>
    /\ insight = [raised |-> "", total |-> 0, years |-> 0, segment |-> "", day |-> "", industry |-> ""]

\* first execution: load_data misses the cache and reads the spreadsheet,
\* the widgets take their defaults
FirstRun ==
    /\ pc = "start"
    /\ \E file \in Files :
          LET frame == load_data(cache, file)
          IN  Run(frame, year_default(frame), segment_default(frame),
                  industry_default(frame))

\* the user changes the year multiselect; the script runs again
SelectYear ==
    /\ pc # "start"
    /\ LET frame == load_data(cache, <<>>)
       IN  \E years \in SUBSET year_options(frame) :
              /\ years # selected_year
              /\ Run(frame, years, selected_segment, selected_industry)

\* the user changes the segment multiselect; the script runs again
SelectSegment ==
    /\ pc # "start"
    /\ LET frame == load_data(cache, <<>>)
       IN  \E segments \in SUBSET segment_options(frame) :
              /\ segments # selected_segment
              /\ Run(frame, selected_year, segments, selected_industry)

\* the user changes the industry multiselect; the script runs again
SelectIndustry ==
    /\ pc # "start"
    /\ LET frame == load_data(cache, <<>>)
       IN  \E industries \in SUBSET industry_options(frame) :
              /\ industries # selected_industry
              /\ Run(frame, selected_year, selected_segment, industries)

\* the page is reloaded: a new session, the widgets take their defaults
\* again and load_data hits the cache
Reload ==
    /\ pc # "start"
    /\ LET frame == load_data(cache, <<>>)
       IN  Run(frame, year_default(frame), segment_default(frame),
               industry_default(frame))

Next == FirstRun \/ SelectYear \/ SelectSegment \/ SelectIndustry \/ Reload

Spec == Init /\ [][Next]_vars

----------------------------------------------------------------------------
(* Properties *)

Ran == pc # "start"

\* positions of df whose row is selected on all three dimensions
MatchPositions ==
    { i \in DOMAIN df : /\ df[i].Year \in selected_year
                        /\ df[i].customer_segment \in selected_segment
                        /\ df[i].businessindustrytype \in selected_industry }

\* C1: the filter returns exactly the records whose year, segment and
\* industry are all in the respective selections, in the order they have
\* in the loaded record set.
C1_FilterExactAndOrdered ==
    Ran => /\ Len(filtered_df) = Cardinality(MatchPositions)
           /\ \A k \in DOMAIN filtered_df : filtered_df[k] = df[Nth(MatchPositions, k)]

\* a run that kept two rows and dropped one that lies between them
C1_Witness ==
    /\ Ran
    /\ \E i, j, k \in DOMAIN df :
          /\ i < j /\ j < k
          /\ i \in MatchPositions /\ j \notin MatchPositions /\ k \in MatchPositions

SomeSelectionEmpty ==
    selected_year = {} \/ selected_segment = {} \/ selected_industry = {}

\* C2: if any one of the three selections is empty the filter result is
\* empty, whatever the other two are.
C2_EmptySelectionEmptyResult ==
    (Ran /\ SomeSelectionEmpty) => filtered_df = <<>>

\* exactly one selection is empty and some row satisfies the other two
C2_Witness ==
    /\ Ran
    /\ selected_segment = {}
    /\ \E i \in DOMAIN df : /\ df[i].Year \in selected_year
                            /\ df[i].businessindustrytype \in selected_industry

\* C3 (as claimed): on an empty filtered set the average-transaction KPI is
\* an explicit no-data marker, not NaN and not 0, and no NaN is displayed.
C3_MeanUndefinedMarker ==
    (Ran /\ filtered_df = <<>>) =>
        /\ avg_transaction.kind = "undefined"
        /\ metrics.avg.text # "nan"

\* C4 (as claimed): on an empty filtered set the run completes and the
\* insight summary carries no exception.
C4_TopKeyNeverRaises ==
    (Ran /\ filtered_df = <<>>) => (pc = "done" /\ insight.raised = "")

Keys(agg) == { agg[k].key : k \in DOMAIN agg }

\* the keys of agg follow the order of calendar, each once
InCalendarOrder(agg, calendar) ==
    \A a, b \in DOMAIN agg :
        a < b => /\ IndexOf(calendar, agg[a].key) > 0
                 /\ IndexOf(calendar, agg[a].key) < IndexOf(calendar, agg[b].key)

\* C6: the month aggregation lists its keys in January..December order and
\* the weekday aggregation in Monday..Sunday order, whatever the row order;
\* the keys are exactly the months (weekdays) that occur in the filtered
\* set, none is added with a zero total.
C6_CanonicalOrdering ==
    Ran => /\ InCalendarOrder(monthly_trend, MONTHS)
           /\ InCalendarOrder(sales_by_day, DAYS)
           /\ Keys(monthly_trend) = { filtered_df[i].Month : i \in DOMAIN filtered_df }
           /\ Keys(sales_by_day) = { filtered_df[i].Day_Name : i \in DOMAIN filtered_df }

\* rows out of calendar order, months and weekdays whose alphabetical order
\* is not the calendar's
C6_Witness ==
    /\ Ran
    /\ {"January", "August"} \subseteq Keys(monthly_trend)
    /\ {"Tuesday", "Thursday"} \subseteq Keys(sales_by_day)
    /\ \E i, j \in DOMAIN filtered_df :
          i < j /\ toordinal(filtered_df[i].Date) > toordinal(filtered_df[j].Date)

ScenarioRows ==
    { Row(2023, 1, 2, 100, "SegA", "Tech"),
      Row(2023, 1, 3, 50, "SegB", "Tech"),
      Row(2023, 6, 5, 200, "SegA", "Retail"),
      Row(2024, 2, 1, 75, "SegB", "Retail") }

Scenario ==
    /\ Ran
    /\ Len(df) = 4
    /\ { [Date |-> df[i].Date, Amount |-> df[i].Amount,
          customer_segment |-> df[i].customer_segment,
          businessindustrytype |-> df[i].businessindustrytype] : i \in DOMAIN df }
         = ScenarioRows
    /\ selected_year = {2023}
    /\ selected_segment = {"SegA", "SegB"}
    /\ selected_industry = {"Tech", "Retail"}

\* C7: on the four scenario records with years={2023}, segments={SegA,SegB},
\* industries={Tech,Retail} the filter yields 3 records, the total is 350,
\* the segment totals are SegA:300, SegB:50 and the top segment is SegA.
C7_EndToEndScenario ==
    Scenario => /\ Len(filtered_df) = 3
                /\ total_sales = 350
                /\ Len(sales_by_segment) = 2
                /\ Keys(sales_by_segment) = {"SegA", "SegB"}
                /\ \A k \in DOMAIN sales_by_segment :
                      sales_by_segment[k].Amount =
                          (IF sales_by_segment[k].key = "SegA" THEN 300 ELSE 50)
                /\ insight.raised = ""
                /\ insight.segment = "SegA"

\* the scenario, its rows in the order the specification lists them
C7_Witness ==
    /\ Scenario
    /\ df[1].Amount = 100 /\ df[2].Amount = 50 /\ df[3].Amount = 200 /\ df[4].Amount = 75

\* C8: filtering the filter's result again with the same selection gives
\* the same records in the same order.
C8_FilterIdempotent ==
    Ran => query(filtered_df, selected_year, selected_segment, selected_industry,
                 FALSE).result = filtered_df

\* a filter that kept some rows and dropped others
C8_Witness ==
    /\ Ran
    /\ Len(filtered_df) >= 2
    /\ Len(filtered_df) < Len(df)

MaxKeys(agg) ==
    { agg[k].key : k \in { a \in DOMAIN agg : \A b \in DOMAIN agg : agg[b].Amount <= agg[a].Amount } }

\* C9: each top key of the insight summary is one of the keys holding the
\* maximum total, and a run over the same filtered set as the run before
\* it names the same three top keys.
C9_TopKeyDeterministic ==
    [][ pc' = "done" =>
          /\ insight'.segment \in MaxKeys(sales_by_segment')
          /\ insight'.day \in MaxKeys(sales_by_day')
          /\ insight'.industry \in MaxKeys(industry_sales')
          /\ (pc = "done" /\ filtered_df' = filtered_df) =>
                /\ insight'.segment = insight.segment
                /\ insight'.day = insight.day
                /\ insight'.industry = insight.industry ]_vars

\* two segments tie for the maximum, and so do two weekdays
C9_Witness ==
    /\ pc = "done"
    /\ Cardinality(MaxKeys(sales_by_segment)) = 2
    /\ Cardinality(MaxKeys(sales_by_day)) = 2

\* every row of frame carries the calendar columns of its own Date
DerivedIntact(frame) ==
    \A i \in DOMAIN frame : frame[i] = derive(frame[i])

\* C10: once loaded, the record set stays the one produced at load, derived
\* columns included, through every run; what a run renders is what the
\* script computes from that record set and the selection of that run.
C10_RecordsNeverMutated ==
    [][ cache.populated =>
          /\ cache' = cache
          /\ df' = cache.value
          /\ DerivedIntact(df')
          /\ filtered_df' = keep(cache.value, selected_year', selected_segment',
                                 selected_industry')
          /\ table' = table_view(filtered_df')
          /\ total_sales' = sum(filtered_df') ]_vars

\* a run whose filter dropped rows and whose selection is not the default
C10_Witness ==
    /\ Ran
    /\ cache.populated
    /\ selected_year # year_default(cache.value)
    /\ filtered_df # <<>>
    /\ Len(filtered_df) < Len(cache.value)
    /\ df = cache.value

====
